---------------------------- MODULE Spec2Model ----------------------------
(***************************************************************************)
(* PDF to text converter (nicolasleiva/pdf_parsing).                       *)
(*                                                                         *)
(* A JavaScript string is modelled as a sequence of characters, each       *)
(* character a one-element token.  ASCII characters stand for themselves;  *)
(* the accented letters of the letter-join regex are written as ASCII      *)
(* tokens: "a'" is a-acute, "E'" is E-acute, "N~" is N-tilde, and so on.   *)
(* Regular expressions are modelled by what JavaScript does with them:     *)
(* leftmost match, greedy quantifiers with backtracking, non-overlapping   *)
(* global replacement, and \w, \b restricted to ASCII (no u flag).         *)
(***************************************************************************)
EXTENDS Integers, Sequences, FiniteSets, TLC

----------------------------------------------------------------------------
(* Character classes                                                       *)

SP == " "
NL == "\n"
HY == "-"

AsciiLower ==
    {"a","b","c","d","e","f","g","h","i","j","k","l","m",
     "n","o","p","q","r","s","t","u","v","w","x","y","z"}

AsciiUpper ==
    {"A","B","C","D","E","F","G","H","I","J","K","L","M",
     "N","O","P","Q","R","S","T","U","V","W","X","Y","Z"}

Digits == {"0","1","2","3","4","5","6","7","8","9"}

\* The accented characters listed in the class of the letter-join regex:
\* upper case A E I O U acute and N tilde, lower case a e i o u acute.
\* The lower case n tilde is not in the class.
AccentedInClass ==
    {"A'","E'","I'","O'","U'","N~","a'","e'","i'","o'","u'"}

\* \s
IsSpace(c) == c \in {" ", "\n", "\t", "\r"}

\* \w without the u flag: ASCII letters, digits and underscore
IsWord(c) == c \in AsciiLower \cup AsciiUpper \cup Digits \cup {"_"}

\* [A-Za-z...] of the letter-join regex
IsLetter(c) == c \in AsciiLower \cup AsciiUpper \cup AccentedInClass

\* Whether the character at position i of s is a word character; positions
\* outside the string count as non-word, as \b treats them.
WordAt(s, i) == i >= 1 /\ i <= Len(s) /\ IsWord(s[i])

\* \b between positions i-1 and i
Boundary(s, i) == WordAt(s, i - 1) # WordAt(s, i)

----------------------------------------------------------------------------
(* String helpers                                                          *)

\* s[i..j], empty when j < i
Slice(s, i, j) == IF j < i THEN << >> ELSE SubSeq(s, i, j)

\* End of the maximal whitespace run that starts at position i: the last
\* position of the run, or i - 1 when s[i] is not whitespace.
RECURSIVE SpaceRunEnd(_, _)
SpaceRunEnd(s, i) ==
    IF i <= Len(s) /\ IsSpace(s[i]) THEN SpaceRunEnd(s, i + 1) ELSE i - 1

\* Position of the last newline in s[i..j], or 0 when there is none.
RECURSIVE LastNewline(_, _, _)
LastNewline(s, i, j) ==
    IF j < i THEN 0
    ELSE IF s[j] = NL THEN j
    ELSE LastNewline(s, i, j - 1)

\* Start of the maximal whitespace run that ends at position j: the first
\* position of the run, or j + 1 when s[j] is not whitespace.
RECURSIVE SpaceRunStart(_, _)
SpaceRunStart(s, j) ==
    IF j >= 1 /\ IsSpace(s[j]) THEN SpaceRunStart(s, j - 1) ELSE j + 1

\* String.prototype.trim: without the whitespace at both ends
Trim(s) == Slice(s, SpaceRunEnd(s, 1) + 1, SpaceRunStart(s, Len(s)) - 1)

\* String.prototype.split('\n'): the pieces between newlines; always at
\* least one piece.
RECURSIVE NextNewline(_, _)
NextNewline(s, i) ==
    IF i > Len(s) THEN Len(s) + 1
    ELSE IF s[i] = NL THEN i
    ELSE NextNewline(s, i + 1)

RECURSIVE SplitFrom(_, _)
SplitFrom(s, i) ==
    LET j == NextNewline(s, i)
    IN  IF j > Len(s) THEN << Slice(s, i, Len(s)) >>
        ELSE << Slice(s, i, j - 1) >> \o SplitFrom(s, j + 1)

SplitLines(s) == SplitFrom(s, 1)

\* Array.prototype.join('\n'); join(sep) in general
RECURSIVE Join(_, _)
Join(parts, sep) ==
    IF parts = << >> THEN << >>
    ELSE IF Len(parts) = 1 THEN parts[1]
    ELSE parts[1] \o sep \o Join(Tail(parts), sep)

\* the characters of s that are not whitespace: match.replace(/\s+/g, '')
RECURSIVE StripSpaces(_)
StripSpaces(s) ==
    IF s = << >> THEN << >>
    ELSE IF IsSpace(Head(s)) THEN StripSpaces(Tail(s))
    ELSE << Head(s) >> \o StripSpaces(Tail(s))

----------------------------------------------------------------------------
(* removeRepeatedLines                                                     *)

HeaderMaxLen == 80
RepeatLimit == 2

\* text.split('\n').map(line => line.trim()).filter(line => line !== '')
TrimAll(split) == [i \in DOMAIN split |-> Trim(split[i])]

originalLines(text) ==
    SelectSeq(TrimAll(SplitLines(text)), LAMBDA line : line # << >>)

\* the loop with the comparison made against the first line pushed
RECURSIVE DedupLoopFirst(_, _, _)
DedupLoopFirst(original, i, deduped) ==
    IF i > Len(original) THEN deduped
    ELSE IF deduped = << >> \/ deduped[1] # original[i]
         THEN DedupLoopFirst(original, i + 1, Append(deduped, original[i]))
         ELSE DedupLoopFirst(original, i + 1, deduped)

\* the loop that pushes a line unless it equals the last line pushed
RECURSIVE DedupLoop(_, _, _)
DedupLoop(original, i, deduped) ==
    IF i > Len(original) THEN deduped
    ELSE IF deduped = << >> \/ deduped[Len(deduped)] # original[i]
         THEN DedupLoop(original, i + 1, Append(deduped, original[i]))
         ELSE DedupLoop(original, i + 1, deduped)

dedupedLines(original) == DedupLoop(original, 1, << >>)

\* frequency counted over the deduplicated lines instead of originalLines
frequencyAfterDedup(original, line) ==
    Cardinality({i \in DOMAIN dedupedLines(original) :
                    dedupedLines(original)[i] = line})

\* frequency[line], counted over originalLines
frequency(original, line) ==
    Cardinality({i \in DOMAIN original : original[i] = line})

\* the predicate of dedupedLines.filter: false drops the line
KeepLine(original, line) ==
    ~(frequency(original, line) > RepeatLimit /\ Len(line) < HeaderMaxLen)

filteredLines(original, deduped) ==
    SelectSeq(deduped, LAMBDA line : KeepLine(original, line))

\* the three arrays of one call
LinesOf(text) ==
    LET original == originalLines(text)
        deduped == dedupedLines(original)
    IN  [originalLines |-> original,
         dedupedLines |-> deduped,
         filteredLines |-> filteredLines(original, deduped)]

removeRepeatedLines(text) == Join(LinesOf(text).filteredLines, << NL >>)

----------------------------------------------------------------------------
(* The cleaning steps of extractTextFromPDF (src/unnamed/part_000)          *)

\* Paso 1, first half: replace(/\n\s*\n/g, '\n\n').  A match starts at a
\* newline and, \s* being greedy, ends at the last newline of the whitespace
\* run that follows it.
RECURSIVE CollapseBlankLinesFrom(_, _)
CollapseBlankLinesFrom(s, i) ==
    IF i > Len(s) THEN << >>
    ELSE IF s[i] = NL /\ LastNewline(s, i + 1, SpaceRunEnd(s, i + 1)) # 0
         THEN << NL, NL >> \o
              CollapseBlankLinesFrom(s, LastNewline(s, i + 1, SpaceRunEnd(s, i + 1)) + 1)
         ELSE << s[i] >> \o CollapseBlankLinesFrom(s, i + 1)

CollapseBlankLines(s) == CollapseBlankLinesFrom(s, 1)

\* Paso 2: the match of (?:[letter]\s+){1,}[letter]\b that starts with the
\* letter at p, the m-th letter of the chain.  The result is the position of
\* the last letter of the match, or 0.  The group is greedy: the longest
\* chain whose last letter is followed by a word boundary wins.
RECURSIVE LetterRunEnd(_, _, _)
LetterRunEnd(s, p, m) ==
    LET e == SpaceRunEnd(s, p + 1)
        q == e + 1
        longer == IF e >= p + 1 /\ q <= Len(s) /\ IsLetter(s[q])
                  THEN LetterRunEnd(s, q, m + 1)
                  ELSE 0
    IN  IF longer # 0 THEN longer
        ELSE IF m >= 2 /\ Boundary(s, p + 1) THEN p
        ELSE 0

\* Where the letter-join regex matches at position i: the end of the match
\* or 0.  The leading \b and the first letter are tested here.
LetterRunMatch(s, i) ==
    IF IsLetter(s[i]) /\ Boundary(s, i) THEN LetterRunEnd(s, i, 1) ELSE 0

RECURSIVE JoinLetterRunsFrom(_, _)
JoinLetterRunsFrom(s, i) ==
    IF i > Len(s) THEN << >>
    ELSE IF LetterRunMatch(s, i) # 0
         THEN StripSpaces(SubSeq(s, i, LetterRunMatch(s, i))) \o
              JoinLetterRunsFrom(s, LetterRunMatch(s, i) + 1)
         ELSE << s[i] >> \o JoinLetterRunsFrom(s, i + 1)

JoinLetterRuns(s) == JoinLetterRunsFrom(s, 1)

\* Paso 3: replace(/\s{2,}/g, ' ')
RECURSIVE CollapseSpacesFrom(_, _)
CollapseSpacesFrom(s, i) ==
    IF i > Len(s) THEN << >>
    ELSE IF IsSpace(s[i]) /\ SpaceRunEnd(s, i) >= i + 1
         THEN << SP >> \o CollapseSpacesFrom(s, SpaceRunEnd(s, i) + 1)
         ELSE << s[i] >> \o CollapseSpacesFrom(s, i + 1)

CollapseSpaces(s) == CollapseSpacesFrom(s, 1)

\* Paso 4, first rule: replace(/-\s*\n\s*/g, '').  A hyphen matches when the
\* whitespace run after it holds a newline; the whole run goes with it.
LineEndHyphenAt(s, i) ==
    s[i] = HY /\ LastNewline(s, i + 1, SpaceRunEnd(s, i + 1)) # 0

RECURSIVE RemoveLineEndHyphensFrom(_, _)
RemoveLineEndHyphensFrom(s, i) ==
    IF i > Len(s) THEN << >>
    ELSE IF LineEndHyphenAt(s, i)
         THEN RemoveLineEndHyphensFrom(s, SpaceRunEnd(s, i + 1) + 1)
         ELSE << s[i] >> \o RemoveLineEndHyphensFrom(s, i + 1)

RemoveLineEndHyphens(s) == RemoveLineEndHyphensFrom(s, 1)

\* Paso 4, second rule: replace(/(\w)-\s+(\w)/g, '$1$2')
BrokenHyphenAt(s, i) ==
    /\ IsWord(s[i])
    /\ i + 1 <= Len(s) /\ s[i + 1] = HY
    /\ SpaceRunEnd(s, i + 2) >= i + 2
    /\ SpaceRunEnd(s, i + 2) + 1 <= Len(s)
    /\ IsWord(s[SpaceRunEnd(s, i + 2) + 1])

RECURSIVE JoinBrokenHyphensFrom(_, _)
JoinBrokenHyphensFrom(s, i) ==
    IF i > Len(s) THEN << >>
    ELSE IF BrokenHyphenAt(s, i)
         THEN << s[i], s[SpaceRunEnd(s, i + 2) + 1] >> \o
              JoinBrokenHyphensFrom(s, SpaceRunEnd(s, i + 2) + 2)
         ELSE << s[i] >> \o JoinBrokenHyphensFrom(s, i + 1)

JoinBrokenHyphens(s) == JoinBrokenHyphensFrom(s, 1)

\* The successive values of the local variable cleanedText: after Paso 1,
\* Paso 2, Paso 3, the two rules of Paso 4, and Paso 5.
CleanSteps(text) ==
    LET s1 == Trim(CollapseBlankLines(text))
        s2 == JoinLetterRuns(s1)
        s3 == CollapseSpaces(s2)
        s4 == RemoveLineEndHyphens(s3)
        s5 == JoinBrokenHyphens(s4)
        s6 == removeRepeatedLines(s5)
    IN  << s1, s2, s3, s4, s5, s6 >>

\* the value extractTextFromPDF returns for fullText
cleanedText(text) == CleanSteps(text)[6]

----------------------------------------------------------------------------
(* The cleaning of the two versions in src/index.js                        *)

\* replace(/\s+/g, ' ')
RECURSIVE NormalizeSpacesFrom(_, _)
NormalizeSpacesFrom(s, i) ==
    IF i > Len(s) THEN << >>
    ELSE IF IsSpace(s[i])
         THEN << SP >> \o NormalizeSpacesFrom(s, SpaceRunEnd(s, i) + 1)
         ELSE << s[i] >> \o NormalizeSpacesFrom(s, i + 1)

NormalizeSpaces(s) == NormalizeSpacesFrom(s, 1)

\* src/index.js:53-56
basicCleanedText(full) ==
    Trim(CollapseBlankLines(NormalizeSpaces(full)))

----------------------------------------------------------------------------
(* State                                                                   *)

VARIABLES
    \* one call of extractTextFromPDF
    version,    \* which extractTextFromPDF runs: "part_000" or "index"
    pc,         \* where the call stands
    numPages,   \* pdf.numPages
    pageNum,    \* the loop variable
    pageTexts,  \* the pageText of every page read so far
    fullText,   \* the accumulated text
    steps,      \* the values cleanedText took (part_000), or the one value
    returned,   \* the value the call resolved with
    upstream,   \* the error getDocument, getPage or getTextContent raised
    thrown,     \* the message of the Error the call rejected with
    \* the cleaning applied to one text, and to its own result
    input,      \* the text x
    pass1,      \* the values of cleanedText in the first call
    pass2,      \* the values of cleanedText in the call on the first result
    passes,     \* how many calls have been made
    \* removeRepeatedLines applied to one text, and to its own result
    arg,        \* the argument text
    lines,      \* originalLines, dedupedLines and filteredLines of the call
    result,     \* the returned string
    again,      \* removeRepeatedLines(result)
    calls,      \* how many calls have been made
    \* one POST /convert request
    handler,    \* which route definition serves it
    format,     \* req.query.format
    hpc,        \* where the request stands
    uploadErr,  \* the error multer reported
    file,       \* req.file: "absent" or its mimetype
    extraction, \* the state of the call of extractTextFromPDF
    extractCalls, \* how often extractTextFromPDF was called
    responses   \* the responses sent, in order

extVars == << version, pc, numPages, pageNum, pageTexts, fullText, steps,
              returned, upstream, thrown >>

textVars == << input, pass1, pass2, passes >>

lineVars == << arg, lines, result, again, calls >>

httpVars == << handler, format, hpc, uploadErr, file, extraction,
               extractCalls, responses >>

vars == << extVars, textVars, lineVars, httpVars >>

\* all strings over alphabet of at most n characters
Strings(alphabet, n) == UNION {[1..k -> alphabet] : k \in 0..n}

\* content.items.map(item => item.str).join(' ')
PageText(items) == Join(items, << SP >>)

----------------------------------------------------------------------------
(* extractTextFromPDF as a process: one step per await                     *)

MaxPages == 3
MaxDocLen == 3

DocAlphabet == {"a", "1", " ", "\n", "-"}

Versions == {"part_000", "index"}

\* errors of pdfjs that reach the catch block
UpstreamErrors == {"InvalidPDFException", "PasswordException"}

\* the message of the Error the catch block throws
ErrorMessage(v) ==
    IF v = "part_000" THEN "Error al extraer el texto del PDF"
    ELSE "Failed to extract text from PDF"

\* content.items of one page, as the list of item.str: no item, one item, or
\* two items, of at most n characters together
ItemLists(alphabet, n) ==
    {<< >>}
    \cup {<< t >> : t \in Strings(alphabet, n)}
    \cup {<< Slice(tc[1], 1, tc[2]), Slice(tc[1], tc[2] + 1, Len(tc[1])) >> :
            tc \in {x \in Strings(alphabet, n) \X (0..n) : x[2] <= Len(x[1])}}

\* characters of page text read so far
DocLen == Len(fullText) - 2 * Len(pageTexts)

ExtInit ==
    /\ version \in Versions
    /\ pc = "getDocument"
    /\ numPages = 0
    /\ pageNum = 0
    /\ pageTexts = << >>
    /\ fullText = << >>
    /\ steps = << >>
    /\ returned = << >>
    /\ upstream = "none"
    /\ thrown = "none"

ExtIdle ==
    /\ version = "part_000"
    /\ pc = "idle"
    /\ numPages = 0
    /\ pageNum = 0
    /\ pageTexts = << >>
    /\ fullText = << >>
    /\ steps = << >>
    /\ returned = << >>
    /\ upstream = "none"
    /\ thrown = "none"

\* an awaited upstream call rejects: control passes to the catch block
Reject(e) ==
    /\ upstream' = e
    /\ pc' = "catch"
    /\ UNCHANGED << version, numPages, pageNum, pageTexts, fullText, steps,
                    returned, thrown >>

\* const pdf = await loadingTask.promise; let fullText = ''; pageNum = 1
GetDocument ==
    /\ pc = "getDocument"
    /\ \/ \E n \in 0..MaxPages :
            /\ numPages' = n
            /\ pageNum' = 1
            /\ fullText' = << >>
            /\ pc' = "loop"
            /\ UNCHANGED << version, pageTexts, steps, returned, upstream, thrown >>
       \/ \E e \in UpstreamErrors : Reject(e)
    /\ UNCHANGED << textVars, lineVars, httpVars >>

\* const page = await pdf.getPage(pageNum)
GetPage ==
    /\ pc = "loop"
    /\ pageNum <= numPages
    /\ \/ /\ pc' = "getTextContent"
          /\ UNCHANGED << version, numPages, pageNum, pageTexts, fullText,
                          steps, returned, upstream, thrown >>
       \/ \E e \in UpstreamErrors : Reject(e)
    /\ UNCHANGED << textVars, lineVars, httpVars >>

\* const content = await page.getTextContent(); pageText; fullText += ...
GetTextContent ==
    /\ pc = "getTextContent"
    /\ \/ \E items \in ItemLists(DocAlphabet, MaxDocLen - DocLen) :
            /\ DocLen + Len(PageText(items)) <= MaxDocLen
            /\ pageTexts' = Append(pageTexts, PageText(items))
            /\ fullText' = fullText \o PageText(items) \o << NL, NL >>
            /\ pageNum' = pageNum + 1
            /\ pc' = "loop"
            /\ UNCHANGED << version, numPages, steps, returned, upstream, thrown >>
       \/ \E e \in UpstreamErrors : Reject(e)
    /\ UNCHANGED << textVars, lineVars, httpVars >>

\* the loop is over: the cleaning and the return
Clean ==
    /\ pc = "loop"
    /\ pageNum > numPages
    /\ steps' = IF version = "part_000" THEN CleanSteps(fullText)
                ELSE << basicCleanedText(fullText) >>
    /\ returned' = steps'[Len(steps')]
    /\ pc' = "returned"
    /\ UNCHANGED << version, numPages, pageNum, pageTexts, fullText, upstream, thrown >>
    /\ UNCHANGED << textVars, lineVars, httpVars >>

\* a catch block that logs the error and returns the empty text
CatchAndReturnEmpty ==
    /\ pc = "catch"
    /\ returned' = << >>
    /\ pc' = "returned"
    /\ UNCHANGED << version, numPages, pageNum, pageTexts, fullText, steps,
                    upstream, thrown >>
    /\ UNCHANGED << textVars, lineVars, httpVars >>

\* catch (error) { console.error(...); throw new Error(...) }
Catch ==
    /\ pc = "catch"
    /\ thrown' = ErrorMessage(version)
    /\ pc' = "thrown"
    /\ UNCHANGED << version, numPages, pageNum, pageTexts, fullText, steps,
                    returned, upstream >>
    /\ UNCHANGED << textVars, lineVars, httpVars >>

----------------------------------------------------------------------------
(* The cleaning as a function of one text: a document of one page whose     *)
(* only item is the text, cleaned, and the result cleaned once more         *)

MaxTextLen == 5

TextAlphabet == {"a", "1", "o'", " ", "\n", "-"}

\* fullText of a document of one page with the single item str
SinglePageText(str) == PageText(<< str >>) \o << NL, NL >>

TextIdle ==
    /\ input = << >>
    /\ pass1 = << >>
    /\ pass2 = << >>
    /\ passes = 0

TextInit ==
    /\ input \in Strings(TextAlphabet, MaxTextLen)
    /\ pass1 = << >>
    /\ pass2 = << >>
    /\ passes = 0

FirstPass ==
    /\ passes = 0
    /\ pass1' = CleanSteps(SinglePageText(input))
    /\ passes' = 1
    /\ UNCHANGED << input, pass2 >>
    /\ UNCHANGED << extVars, lineVars, httpVars >>

SecondPass ==
    /\ passes = 1
    /\ pass2' = CleanSteps(SinglePageText(pass1[6]))
    /\ passes' = 2
    /\ UNCHANGED << input, pass1 >>
    /\ UNCHANGED << extVars, lineVars, httpVars >>

----------------------------------------------------------------------------
(* removeRepeatedLines as a function of one text                           *)

MaxLines == 5

\* a line of n characters
LongLine(n) == [i \in 1..n |-> "x"]

\* the lines the texts are made of: an empty line, a title with and without
\* surrounding blanks, a body line, and lines just under and at the length
\* limit
LinePool ==
    { << >>, << "T" >>, << " ", "T", " " >>, << "B" >>,
      LongLine(HeaderMaxLen - 1), LongLine(HeaderMaxLen) }

NoLines == [originalLines |-> << >>, dedupedLines |-> << >>, filteredLines |-> << >>]

LinesIdle ==
    /\ arg = << >>
    /\ lines = NoLines
    /\ result = << >>
    /\ again = << >>
    /\ calls = 0

LinesInit ==
    /\ arg \in {Join(ls, << NL >>) : ls \in UNION {[1..k -> LinePool] : k \in 0..MaxLines}}
    /\ lines = NoLines
    /\ result = << >>
    /\ again = << >>
    /\ calls = 0

CallRemoveRepeatedLines ==
    /\ calls = 0
    /\ lines' = LinesOf(arg)
    /\ result' = Join(lines'.filteredLines, << NL >>)
    /\ calls' = 1
    /\ UNCHANGED << arg, again >>
    /\ UNCHANGED << extVars, textVars, httpVars >>

CallAgain ==
    /\ calls = 1
    /\ again' = removeRepeatedLines(result)
    /\ calls' = 2
    /\ UNCHANGED << arg, lines, result >>
    /\ UNCHANGED << extVars, textVars, httpVars >>

----------------------------------------------------------------------------
(* POST /convert                                                           *)

MaxHttpLen == 3

HttpAlphabet == {"a", "1", " "}

\* "callback": upload.single is called inside the route and its error is
\* handled there (src/unnamed/part_000:124-195, src/index.js:216-288).
\* "middleware": upload.single is the route's middleware, and its error goes
\* to the error-handling middleware (src/index.js:72-123, 126-133).
Handlers == {"callback", "middleware"}

\* req.query.format: not given, 'download', or anything else
Formats == {"none", "download", "xml"}

\* what multer can report: MulterError with code LIMIT_FILE_SIZE, another
\* MulterError, an error that is not a MulterError
UploadErrors == {"LIMIT_FILE_SIZE", "LIMIT_UNEXPECTED_FILE", "OtherError"}

IsMulterError(e) == e \in {"LIMIT_FILE_SIZE", "LIMIT_UNEXPECTED_FILE"}

MimeTypes == {"application/pdf", "application/x-pdf", "text/plain", "image/png"}

\* req.file.mimetype.includes('pdf')
IncludesPdf(mimetype) == mimetype \in {"application/pdf", "application/x-pdf"}

\* the texts extractTextFromPDF can resolve with
ExtractedTexts ==
    {cleanedText(SinglePageText(t)) : t \in Strings(HttpAlphabet, MaxHttpLen)}

\* res.status(status).json({ success: false, error })
ErrorResponse(status, error) ==
    [status |-> status, type |-> "json", success |-> "false",
     characters |-> -1, text |-> << >>, error |-> error]

\* res.json({ success: true, filename, characters: extractedText.length, text })
JsonResponse(extractedText) ==
    [status |-> 200, type |-> "json", success |-> "true",
     characters |-> Len(extractedText), text |-> extractedText, error |-> ""]

\* res.setHeader('Content-Type', 'text/plain'); res.send(extractedText)
DownloadResponse(extractedText) ==
    [status |-> 200, type |-> "text/plain", success |-> "absent",
     characters |-> -1, text |-> extractedText, error |-> ""]

\* the response to an upload error
UploadErrorResponse(h, e) ==
    IF h = "middleware" THEN ErrorResponse(500, "Internal Server Error")
    ELSE IF e = "LIMIT_FILE_SIZE"
         THEN ErrorResponse(400, "El archivo es demasiado grande. El limite es 20MB.")
    ELSE IF IsMulterError(e) THEN ErrorResponse(400, e)
    ELSE ErrorResponse(500, "Error al subir el archivo")

HttpInit ==
    /\ handler \in Handlers
    /\ format \in Formats
    /\ hpc = "uploading"
    /\ uploadErr = "none"
    /\ file = "unknown"
    /\ extraction = "none"
    /\ extractCalls = 0
    /\ responses = << >>

HttpIdle ==
    /\ handler = "callback"
    /\ format = "none"
    /\ hpc = "idle"
    /\ uploadErr = "none"
    /\ file = "unknown"
    /\ extraction = "none"
    /\ extractCalls = 0
    /\ responses = << >>

\* the error response is sent without return: the route goes on
UploadFailsAndGoesOn ==
    /\ hpc = "uploading"
    /\ \E e \in UploadErrors :
          /\ uploadErr' = e
          /\ responses' = Append(responses, UploadErrorResponse(handler, e))
    /\ file' = "application/pdf"
    /\ extraction' = "pending"
    /\ extractCalls' = extractCalls + 1
    /\ hpc' = "extracting"
    /\ UNCHANGED << handler, format >>
    /\ UNCHANGED << extVars, textVars, lineVars >>

\* multer reports an error: the response is sent and the request is over
UploadFails ==
    /\ hpc = "uploading"
    /\ \E e \in UploadErrors :
          /\ uploadErr' = e
          /\ responses' = Append(responses, UploadErrorResponse(handler, e))
    /\ hpc' = "responded"
    /\ UNCHANGED << handler, format, file, extraction, extractCalls >>
    /\ UNCHANGED << extVars, textVars, lineVars >>

\* the upload ended without error and without a file
NoFile ==
    /\ hpc = "uploading"
    /\ file' = "absent"
    /\ responses' = Append(responses,
          ErrorResponse(400, IF handler = "middleware" THEN "No PDF file uploaded"
                             ELSE "No se ha subido ningun archivo PDF"))
    /\ hpc' = "responded"
    /\ UNCHANGED << handler, format, uploadErr, extraction, extractCalls >>
    /\ UNCHANGED << extVars, textVars, lineVars >>

\* the upload ended with a file whose mimetype does not include 'pdf'
NotPdf ==
    /\ hpc = "uploading"
    /\ \E m \in MimeTypes :
          /\ ~IncludesPdf(m)
          /\ file' = m
    /\ responses' = Append(responses,
          ErrorResponse(400, IF handler = "middleware" THEN "Uploaded file is not a PDF"
                             ELSE "El archivo subido no es un PDF"))
    /\ hpc' = "responded"
    /\ UNCHANGED << handler, format, uploadErr, extraction, extractCalls >>
    /\ UNCHANGED << extVars, textVars, lineVars >>

\* the upload ended with a PDF: await extractTextFromPDF(req.file.buffer)
StartExtraction ==
    /\ hpc = "uploading"
    /\ \E m \in MimeTypes :
          /\ IncludesPdf(m)
          /\ file' = m
    /\ extraction' = "pending"
    /\ extractCalls' = extractCalls + 1
    /\ hpc' = "extracting"
    /\ UNCHANGED << handler, format, uploadErr, responses >>
    /\ UNCHANGED << extVars, textVars, lineVars >>

\* extractTextFromPDF resolved: the text is sent as a download or as JSON
ExtractionResolves ==
    /\ hpc = "extracting"
    /\ \E extractedText \in ExtractedTexts :
          responses' = Append(responses,
              IF format = "download" THEN DownloadResponse(extractedText)
              ELSE JsonResponse(extractedText))
    /\ extraction' = "resolved"
    /\ hpc' = "responded"
    /\ UNCHANGED << handler, format, uploadErr, file, extractCalls >>
    /\ UNCHANGED << extVars, textVars, lineVars >>

\* extractTextFromPDF rejected: the catch block of the route answers
ExtractionRejects ==
    /\ hpc = "extracting"
    /\ responses' = Append(responses,
          ErrorResponse(500, IF handler = "middleware"
                             THEN "An error occurred while processing the PDF"
                             ELSE "Ocurrio un error al procesar el PDF"))
    /\ extraction' = "rejected"
    /\ hpc' = "responded"
    /\ UNCHANGED << handler, format, uploadErr, file, extractCalls >>
    /\ UNCHANGED << extVars, textVars, lineVars >>

----------------------------------------------------------------------------
(* Specifications                                                          *)

\* extractTextFromPDF on documents of up to MaxPages pages
Init == ExtInit /\ TextIdle /\ LinesIdle /\ HttpIdle

Next == GetDocument \/ GetPage \/ GetTextContent \/ Clean \/ Catch

Spec == Init /\ [][Next]_vars

\* the cleaning applied to one text, twice
InitText == ExtIdle /\ TextInit /\ LinesIdle /\ HttpIdle

NextText == FirstPass \/ SecondPass

SpecText == InitText /\ [][NextText]_vars

\* removeRepeatedLines applied to one text, twice
InitLines == ExtIdle /\ TextIdle /\ LinesInit /\ HttpIdle

NextLines == CallRemoveRepeatedLines \/ CallAgain

SpecLines == InitLines /\ [][NextLines]_vars

\* one POST /convert request
InitHttp == ExtIdle /\ TextIdle /\ LinesIdle /\ HttpInit

NextHttp ==
    \/ UploadFails
    \/ NoFile
    \/ NotPdf
    \/ StartExtraction
    \/ ExtractionResolves
    \/ ExtractionRejects

SpecHttp == InitHttp /\ [][NextHttp]_vars

----------------------------------------------------------------------------
(* Helpers of the properties                                               *)

Min(S) == CHOOSE m \in S : \A n \in S : m <= n

Max(S) == CHOOSE m \in S : \A n \in S : m >= n

\* the elements of seq at the positions in I, in order
SubseqAt(seq, I) ==
    [k \in 1..Cardinality(I) |->
        seq[CHOOSE i \in I : Cardinality({j \in I : j <= i}) = k]]

NoAdjacentEqual(seq) == \A i \in 1..(Len(seq) - 1) : seq[i] # seq[i + 1]

\* The reference definition of removeRepeatedLines, written from positions.
\* The line boundaries of s: before the start, every newline, after the end.
RefBoundaries(s) == {0} \cup {i \in 1..Len(s) : s[i] = NL} \cup {Len(s) + 1}

\* the pieces of s between consecutive boundaries
RefPieces(s) ==
    LET B == RefBoundaries(s)
        nth(k) == CHOOSE b \in B : Cardinality({c \in B : c < b}) = k
    IN  [k \in 1..(Cardinality(B) - 1) |-> Slice(s, nth(k - 1) + 1, nth(k) - 1)]

\* a piece from its first to its last non-blank character
RefTrim(l) ==
    LET ink == {i \in 1..Len(l) : ~IsSpace(l[i])}
    IN  IF ink = {} THEN << >> ELSE SubSeq(l, Min(ink), Max(ink))

\* L: the lines, trimmed, without the empty ones
RefL(s) ==
    LET pieces == RefPieces(s)
        trimmed == [k \in DOMAIN pieces |-> RefTrim(pieces[k])]
    IN  SubseqAt(trimmed, {k \in DOMAIN trimmed : trimmed[k] # << >>})

\* D: L with each block of consecutive equal lines collapsed to one
RefD(L) == SubseqAt(L, {i \in DOMAIN L : i = 1 \/ L[i] # L[i - 1]})

\* f(x): the occurrences of x in L
RefF(L, x) == Len(SelectSeq(L, LAMBDA y : y = x))

\* the lines of D that are not both frequent and short
RefResult(s) ==
    LET L == RefL(s)
        D == RefD(L)
    IN  SubseqAt(D, {i \in DOMAIN D : ~(RefF(L, D[i]) > 2 /\ Len(D[i]) < 80)})

----------------------------------------------------------------------------
(* Properties of removeRepeatedLines, under SpecLines                      *)

----------------------------------------------------------------------------
(* Properties of the cleaning of one text, under SpecText                  *)

\* a non-empty string of word characters
IsWordString(u) == u # << >> /\ \A i \in DOMAIN u : IsWord(u[i])

\* the ways to read s as u sep v with u and v strings of word characters:
\* the lengths of u
WordSplits(s, sep) ==
    {k \in 1..Len(s) :
        /\ k + Len(sep) < Len(s)
        /\ SubSeq(s, k + 1, k + Len(sep)) = sep
        /\ IsWordString(SubSeq(s, 1, k))
        /\ IsWordString(SubSeq(s, k + Len(sep) + 1, Len(s)))}

\* u v for the split of s at k around a separator of n characters
Joined(s, k, n) == SubSeq(s, 1, k) \o SubSeq(s, k + n + 1, Len(s))

\* C1: cleaning the result of the cleaning, fed back as a document of one
\* page with one item, returns it unchanged.
C1_Idempotent == passes = 2 => pass2[6] = pass1[6]

\* C4: for strings u and v of word characters, "u-<newline>v" becomes "uv",
\* "u - v" becomes "uv", and "u-v" is returned unchanged.
C4_HyphenationRepair ==
    passes >= 1 =>
        /\ \A k \in WordSplits(input, << HY, NL >>) : pass1[6] = Joined(input, k, 2)
        /\ \A k \in WordSplits(input, << SP, HY, SP >>) : pass1[6] = Joined(input, k, 3)
        /\ \A k \in WordSplits(input, << HY >>) : pass1[6] = input

\* The letter-join step as C5 describes it.  A word character in the sense
\* of the claim is a letter of the class, a digit or an underscore; a token
\* of exactly one letter is a letter with no word character next to it.
WordLikeAt(s, i) ==
    i >= 1 /\ i <= Len(s) /\ (IsWord(s[i]) \/ IsLetter(s[i]))

SingleLetterAt(s, i) ==
    /\ i >= 1 /\ i <= Len(s)
    /\ IsLetter(s[i])
    /\ ~WordLikeAt(s, i - 1)
    /\ ~WordLikeAt(s, i + 1)

\* the last letter of the run of single-letter tokens that holds position i
RECURSIVE RefRunEnd(_, _)
RefRunEnd(s, i) ==
    IF SpaceRunEnd(s, i + 1) >= i + 1 /\ SingleLetterAt(s, SpaceRunEnd(s, i + 1) + 1)
    THEN RefRunEnd(s, SpaceRunEnd(s, i + 1) + 1)
    ELSE i

\* every maximal run of two or more single-letter tokens fused, the rest
\* of the text unaltered
RECURSIVE RefJoinFrom(_, _)
RefJoinFrom(s, i) ==
    IF i > Len(s) THEN << >>
    ELSE IF SingleLetterAt(s, i) /\ RefRunEnd(s, i) > i
         THEN StripSpaces(SubSeq(s, i, RefRunEnd(s, i))) \o
              RefJoinFrom(s, RefRunEnd(s, i) + 1)
         ELSE << s[i] >> \o RefJoinFrom(s, i + 1)

\* C5: the letter-join step (Paso 2) fuses exactly the maximal runs of two
\* or more single-letter tokens and alters nothing else: no multi-letter
\* word is fused with a neighbour, no such run is left unfused.
C5_LetterJoinExact == passes >= 1 => pass1[2] = RefJoinFrom(pass1[1], 1)

\* the number of hyphens of s
HyphenCount(s) == Cardinality({i \in DOMAIN s : s[i] = HY})

\* the hyphens of s that lack a word character on either side of the
\* hyphen-plus-whitespace group
UnguardedHyphens(s) ==
    {i \in DOMAIN s :
        /\ s[i] = HY
        /\ ~(WordAt(s, i - 1) /\ WordAt(s, SpaceRunEnd(s, i + 1) + 1))}

\* C8: the two hyphenation rules (Paso 4) delete a hyphen only between two
\* word characters: every hyphen of the text before Paso 4 that lacks a
\* word character on either side is still there after it.
C8_HyphensGuarded ==
    passes >= 1 => HyphenCount(pass1[5]) >= Cardinality(UnguardedHyphens(pass1[3]))

----------------------------------------------------------------------------
(* Properties of extractTextFromPDF, under Spec                            *)

\* a paragraph: words separated by single blanks, nothing else
IsParagraph(p) ==
    /\ p # << >>
    /\ \A i \in DOMAIN p : IsWord(p[i]) \/ (p[i] = SP /\ 1 < i /\ i < Len(p))
    /\ \A i \in 1..(Len(p) - 1) : ~(p[i] = SP /\ p[i + 1] = SP)

\* the places of s where an empty line stands between two lines
BlankLines(s) == {i \in 1..(Len(s) - 1) : s[i] = NL /\ s[i + 1] = NL}

\* C2: the texts of two pages, each a paragraph, come out with exactly one
\* blank line between them.
C2_ParagraphBreakKept ==
    (pc = "returned" /\ version = "part_000" /\ numPages = 2
        /\ IsParagraph(pageTexts[1]) /\ IsParagraph(pageTexts[2]))
    => /\ Cardinality(BlankLines(returned)) = 1
       /\ \E i \in BlankLines(returned) : 1 < i /\ i + 1 < Len(returned)

\* the lines of a page text, trimmed, without the empty ones
PageLines(p) == {RefL(p)[i] : i \in DOMAIN RefL(p)}

\* the places of s where f stands on its own: as a whole line or between
\* blanks
Occurrences(f, s) ==
    {i \in 1..(Len(s) - Len(f) + 1) :
        /\ SubSeq(s, i, i + Len(f) - 1) = f
        /\ (i = 1 \/ IsSpace(s[i - 1]))
        /\ (i + Len(f) - 1 = Len(s) \/ IsSpace(s[i + Len(f)]))}

\* C3: when each of three or more pages holds the same line of fewer than
\* 80 characters, that line stands fewer than 3 times in the returned text.
C3_FooterRemoved ==
    (pc = "returned" /\ version = "part_000" /\ numPages >= 3)
    => \A f \in PageLines(pageTexts[1]) :
          (Len(f) < 80 /\ \A p \in DOMAIN pageTexts : f \in PageLines(pageTexts[p]))
          => Cardinality(Occurrences(f, returned)) < 3

----------------------------------------------------------------------------
(* Properties of POST /convert, under SpecHttp                             *)

\* the mimetypes that contain 'pdf'
PdfMimeTypes == {"application/pdf", "application/x-pdf"}

\* What holds of every request whatever the status of an upload error: at
\* most one response, exactly one once the request is over, and a step
\* still to come before that; extraction is called only after an upload
\* without error of a file whose mimetype contains 'pdf'; a missing or
\* non-PDF file is answered 400 and an extraction failure 500, both with
\* success=false and, for the first two, without extraction; success=true
\* only after a successful extraction, with characters the length of text.
RequestOrder ==
    /\ Len(responses) <= 1
    /\ (hpc = "responded") <=> (Len(responses) = 1)
    /\ hpc # "responded" => ENABLED NextHttp
    /\ extractCalls <= 1
    /\ extractCalls > 0 => (uploadErr = "none" /\ file \in PdfMimeTypes)
    /\ extraction # "none" => extractCalls = 1
    /\ hpc = "responded" =>
          /\ uploadErr # "none" =>
                (responses[1].success = "false" /\ extractCalls = 0)
          /\ (uploadErr = "none" /\ file \notin PdfMimeTypes) =>
                /\ responses[1].success = "false"
                /\ responses[1].status = 400
                /\ extractCalls = 0
          /\ extraction = "rejected" =>
                (responses[1].success = "false" /\ responses[1].status = 500)
          /\ responses[1].success = "true" =>
                /\ extraction = "resolved"
                /\ responses[1].characters = Len(responses[1].text)

\* C10 as stated: in addition, an upload error is answered 400, or 500 when
\* it is not a MulterError.
C10_AsStated ==
    /\ RequestOrder
    /\ (hpc = "responded" /\ uploadErr # "none") =>
          responses[1].status = IF IsMulterError(uploadErr) THEN 400 ELSE 500

\* C10 amended: an upload error is answered 400, or 500 when it is not a
\* MulterError, by the routes that call upload.single themselves; by the
\* route of src/index.js:72 that has it as middleware, every upload error is
\* answered 500 by the error-handling middleware.
C10_StatusByHandler ==
    /\ RequestOrder
    /\ (hpc = "responded" /\ uploadErr # "none") =>
          responses[1].status =
              IF handler = "callback" /\ IsMulterError(uploadErr) THEN 400 ELSE 500

\* C10 witness: a file over the size limit sent to the middleware route was
\* answered 500 with success=false, extraction never called.
C10_Witness ==
    /\ hpc = "responded"
    /\ handler = "middleware"
    /\ uploadErr = "LIMIT_FILE_SIZE"
    /\ responses = << ErrorResponse(500, "Internal Server Error") >>
    /\ extractCalls = 0

============================================================================
